---- MODULE Spec2Model ----
(***************************************************************************)
(* PixelPulse (src/js/pixelate.js): the pixelation engine, the animation   *)
(* engine, the GIF exporter and the application handlers that drive them,  *)
(* as one state machine.                                                   *)
(*                                                                         *)
(* The host is single threaded: an event handler, a promise continuation   *)
(* and one animation frame (all requestAnimationFrame callbacks that were  *)
(* pending when the frame began, in registration order) each run to        *)
(* completion, so each is one action.  The program's objects are records   *)
(* (pe, ae, ge); an operation of the code is an operator from a "world"    *)
(* record to the world after it, so that a handler is the composition of   *)
(* the calls it makes.                                                     *)
(*                                                                         *)
(* The animation clock is counted in units of 0.0032 s: one tick advances  *)
(* it by 0.016 * speed / 5 s = speed units.                                *)
(***************************************************************************)
EXTENDS Integers, Sequences, FiniteSets, TLC

VARIABLES
    pe,       \* PixelateEngine: originalImage, pixelSize, outputWidth, outputHeight
    ae,       \* AnimationEngine: isRunning, animationId, time, frameCount, speed, grid cache,
              \* currentEffect, intensity
    ge,       \* GifExporter: gif, isExporting, framesCaptured, totalFrames, frameDelay
    canvas,   \* elements.pixelCanvas: width, height
    app,      \* app.isImageLoaded
    sliders,  \* DOM values of the pixel-size, speed and intensity sliders, and the
              \* effect of the active effect button
    files,    \* the image files the user has at hand
    loads,    \* image decodes in flight (PixelateEngine.loadImage promises not settled)
    gifLib,   \* whether the global GIF (gif.js) is defined
    exportOptions,  \* the export options this run asks for (frames, captureInterval)
    promises, \* the promises of PixelateEngine.loadImage calls made by other callers than
              \* the application, not settled yet
    gifs,     \* the encoder instances created by GifExporter.init that are in use
    loops,    \* the captureLoop closures that are still scheduled
    raf,      \* callbacks registered with requestAnimationFrame, in order
    ev        \* what the last handler or frame did, in order

vars == <<pe, ae, ge, canvas, app, sliders, files, loads, gifLib, exportOptions, promises,
          gifs, loops, raf, ev>>

----------------------------------------------------------------------------
(* Bounds of the model *)

MaxExports  == 2   \* encoder instances (exports) in use at one time
MaxFrames   == 2   \* options.frames is drawn from 1..MaxFrames
MaxInterval == 2   \* options.captureInterval is drawn from 1..MaxInterval
MaxTime     == 10  \* live playback is not run further once the clock has reached this
ProgressSteps == 2 \* the encoder reports progress q / ProgressSteps, q in 1..ProgressSteps
MaxPending  == 2   \* loadImage promises of other callers pending at one time

\* no frame is run once a capture loop has rendered this often (a loop that is
\* not disturbed renders frames * captureInterval times)
MaxRenders  == MaxFrames * MaxInterval + 1

(* Program constants *)

MinPixelSize     == 4
MaxPixelSize     == 64
MinSpeed         == 1
MaxSpeed         == 10
DefaultBox       == 400
DefaultFrames    == 30
DefaultDelay     == 50
DefaultInterval  == 2
DefaultPixelSize == 8
DefaultSpeed     == 5
MinIntensity     == 1
MaxIntensity     == 10
DefaultIntensity == 5
DefaultEffect    == "glitch"
AlphaSkip        == 10   \* a cell with an alpha below this is not drawn
MantissaBits     == 52   \* fraction bits of a Number (IEEE 754 binary64)

(* Inputs *)

NoImage == 0
Images  == {1, 2}
ImgW(i) == CASE i = 1 -> 64 [] i = 2 -> 128 [] i = 3 -> 300 [] i = 5 -> 24 [] i = 6 -> 1000
             [] OTHER -> 539
ImgH(i) == CASE i = 1 -> 64 [] i = 2 -> 128 [] i = 3 -> 200 [] i = 5 -> 16 [] i = 6 -> 1
             [] OTHER -> 400

\* the images, block sizes and bounding boxes the pixelation engine is
\* called with on its own
EngineImages == {1, 4}
SizeInputs   == 1..70
BoxInputs    == {300, 400}

PixelSizeInputs == {8, 16}
SpeedInputs     == {5, 10}
FrameInputs     == 1..MaxFrames
IntervalInputs  == 1..MaxInterval
CanvasInits     == {[w |-> 0, h |-> 0], [w |-> 300, h |-> 150]}

\* the effects of the effect buttons
Effects == {"none", "glitch", "float", "sparkle", "wave", "rainbow"}

\* slider values a handler may be given, past both ends of every slider
ControlInputs == {0, 11}
BlockInputs   == {3, 65}

\* the outcomes of Math.random() in one renderGlitch call, one value per use:
\* u, the activation draw of a glitch line, and v, that of the micro-jitter
\* of a row (hundredths); y, the row a glitch line starts at; height, its
\* rows; offset, the side that (Math.random() - 0.5) falls on
RandomOutcomes == [u : {0, 99}, v : {0, 99}, y : {1}, height : {2}, offset : {1}]

\* seededRandom(seed), in millionths, of the seeds renderSparkle reaches while
\* the clock is under a third of a second: entry i + 1 holds those of the
\* seeds i * 1000 and i * 1000 + 1
SeededTable ==
    << <<0, 709848>>, <<795405, 905975>>, <<395044, 959401>>, <<899742, 205869>>,
       <<962061, 721371>>, <<335612, 484310>>, <<804873, 174698>>, <<854299, 306600>>,
       <<430323, 753613>>, <<466556, 978733>>, <<856111, 647255>>, <<110688, 86486>>,
       <<588187, 28870>>, <<796085, 415927>>, <<841005, 295211>>, <<286578, 284954>>,
       <<70661, 647079>>, <<226078, 914358>>, <<363045, 336552>>, <<778663, 988577>>,
       <<847619, 316533>>, <<142393, 327116>>, <<519790, 793786>>, <<130463, 191707>>,
       <<569187, 930244>>, <<6532, 159706>>, <<413498, 5533>>, <<777582, 986122>>,
       <<501091, 208463>>, <<731288, 336346>>, <<345581, 398639>>, <<223716, 874751>>,
       <<440535, 401650>>, <<150099, 201309>>, <<650477, 180001>>, <<53775, 808391>>,
       <<660175, 798244>>, <<701653, 500175>>, <<658704, 906924>>, <<731158, 441361>>,
       <<396567, 655582>>, <<550798, 902829>>, <<40586, 664574>>, <<860454, 940022>>,
       <<864933, 195075>>, <<941826, 882971>>, <<111337, 643782>>, <<447905, 611259>>,
       <<273793, 424537>>, <<931352, 368563>> >>

\* what loadImage may be given: the three kinds its documentation names, a
\* URL string, and anything else (null, a canvas, an ImageBitmap, ...)
SourceKinds == {"File", "Blob", "HTMLImageElement", "string", "other"}

Slots == 1..MaxPending

\* a pending promise: the kind of its source, the image the source holds, and
\* whether loadImage has set img.src
NoPromise == [kind |-> "none", img |-> NoImage, srcSet |-> FALSE]

ExportIds == 1..MaxExports

----------------------------------------------------------------------------
(* Arithmetic *)

Min2(a, b) == IF a <= b THEN a ELSE b
Max2(a, b) == IF a >= b THEN a ELSE b
Ceil(a, b) == (a + b - 1) \div b

\* floor(log2(n)), n >= 1
RECURSIVE Log2(_)
Log2(n) == IF n < 2 THEN 0 ELSE 1 + Log2(n \div 2)

\* (r * 2^n) % b
RECURSIVE Doublings(_, _, _)
Doublings(r, b, n) == IF n = 0 THEN r ELSE Doublings((2 * r) % b, b, n - 1)

\* Math.floor(src * (a / b)) as the host computes it, for integers
\* 0 < a <= b and src > 0 (all below 2^14): a / b is rounded to the nearest
\* Number (a binary fraction of MantissaBits + 1 significant bits), the
\* product is rounded again, then floored.  When b does not divide src * a
\* the rounding errors are far smaller than the distance to the next
\* integer.  When it does (the exact product is the integer N), the result
\* is N - 1 if the quotient was rounded down (remainder R, 0 < 2R < b) and the
\* product src * (a/b - R/(b * 2^(m + MantissaBits))) is not rounded up to N.
FloorMul(src, a, b) ==
    LET N == (src * a) \div b
        m == Log2(Ceil(b, a) - 1) + 1          \* 2^-m <= a/b < 2^(1-m)
        R == Doublings(a % b, b, m + MantissaBits)
        E == Log2(N)
    IN  IF a = b THEN src
        ELSE IF (src * a) % b # 0 \/ R = 0 \/ 2 * R > b THEN N
        ELSE IF (IF N = 2^E THEN 4 ELSE 2) * src * R <= b * 2^(E + m) THEN N
        ELSE N - 1

----------------------------------------------------------------------------
(* The world a handler works on, and the record of what it did *)

World ==
    [pe |-> pe, ae |-> ae, ge |-> ge, canvas |-> canvas, gifs |-> gifs,
     loops |-> loops, raf |-> raf, cur |-> <<>>, lib |-> gifLib, ret |-> FALSE,
     ev |-> <<>>]

\* an encoder instance: the size it was created with, the frames it was
\* handed, the render() calls it received, whether it was aborted / finished /
\* has failed, the progress q it reported last, and the percentage that
\* was passed to onProgress last on its behalf
NoGif == [made |-> FALSE, w |-> 0, h |-> 0, frames |-> 0, renders |-> 0,
          aborted |-> FALSE, finished |-> FALSE, failed |-> FALSE, p |-> 0,
          reported |-> 0]

\* a captureLoop closure: wasRunning, captureInterval, frameCounter; and of
\* its export: the frames asked for, the clock before startExport, whether
\* cancel() was called since
NoLoop == [active |-> FALSE, wasRunning |-> FALSE, interval |-> 0,
           frameCounter |-> 0, frames |-> 0, preTime |-> 0,
           cancelled |-> FALSE]

\* an event: what was done (op), by whom (the live loop, the capture loop of
\* export id, the encoder, the app), and the state it was done in
Emit(w, op, by, id, val) ==
    [w EXCEPT !.ev = Append(@,
        [op |-> op, by |-> by, id |-> id, val |-> val,
         running |-> w.ae.isRunning, exporting |-> w.ge.isExporting,
         img |-> w.pe.originalImage, px |-> w.pe.pixelSize,
         grid |-> w.ae.pixelGrid, time |-> w.ae.time,
         cw |-> w.canvas.w, ch |-> w.canvas.h,
         outW |-> w.pe.outputWidth, outH |-> w.pe.outputHeight,
         loop |-> IF id \in ExportIds THEN w.loops[id] ELSE NoLoop,
         own  |-> IF id \in ExportIds THEN w.gifs[id] ELSE NoGif])]

----------------------------------------------------------------------------
(* PixelateEngine *)

NoGrid == [img |-> NoImage, px |-> 0, w |-> 0, h |-> 0]

setPixelSize(w, size) ==
    [w EXCEPT !.pe.pixelSize = Max2(MinPixelSize, Min2(MaxPixelSize, size))]

\* scale = Math.min(maxW / srcW, maxH / srcH, 1); Math.floor(src * scale)
ScaledW(iw, ih, maxW, maxH) ==
    IF maxW >= iw /\ maxH >= ih THEN iw
    ELSE IF maxW * ih <= maxH * iw THEN FloorMul(iw, maxW, iw)
    ELSE FloorMul(iw, maxH, ih)

ScaledH(iw, ih, maxW, maxH) ==
    IF maxW >= iw /\ maxH >= ih THEN ih
    ELSE IF maxW * ih <= maxH * iw THEN FloorMul(ih, maxW, iw)
    ELSE FloorMul(ih, maxH, ih)

\* the event of a geometry computation, with the bounding box it was given
EmitGeometry(w, maxW, maxH) ==
    LET w1 == Emit(w, "geometry", "engine", 0, 0)
    IN  [w1 EXCEPT !.ev[Len(w1.ev)] = @ @@ [maxW |-> maxW, maxH |-> maxH]]

\* a geometry computation that stores the scaled size, not snapped to blocks
getPixelatedDataUnsnapped(w, maxW, maxH) ==
    IF w.pe.originalImage = NoImage THEN w
    ELSE LET i == w.pe.originalImage
         IN  EmitGeometry(
                 [w EXCEPT !.pe.outputWidth  = ScaledW(ImgW(i), ImgH(i), maxW, maxH),
                           !.pe.outputHeight = ScaledH(ImgW(i), ImgH(i), maxW, maxH)],
                 maxW, maxH)

\* returns null (and changes nothing) without an image
getPixelatedData(w, maxW, maxH) ==
    IF w.pe.originalImage = NoImage THEN w
    ELSE LET i  == w.pe.originalImage
             gw == Ceil(ScaledW(ImgW(i), ImgH(i), maxW, maxH), w.pe.pixelSize)
             gh == Ceil(ScaledH(ImgW(i), ImgH(i), maxW, maxH), w.pe.pixelSize)
         IN  EmitGeometry([w EXCEPT !.pe.outputWidth  = gw * w.pe.pixelSize,
                                    !.pe.outputHeight = gh * w.pe.pixelSize],
                          maxW, maxH)

\* a grid of the whole blocks of the source image only
getPixelGridTruncating(w) ==
    IF w.pe.originalImage = NoImage THEN NoGrid
    ELSE [img |-> w.pe.originalImage, px |-> w.pe.pixelSize,
          w |-> ImgW(w.pe.originalImage) \div w.pe.pixelSize,
          h |-> ImgH(w.pe.originalImage) \div w.pe.pixelSize]

\* the grid is resampled from the image held now, at the grid size of now
getPixelGrid(w) ==
    IF w.pe.originalImage = NoImage THEN NoGrid
    ELSE [img |-> w.pe.originalImage, px |-> w.pe.pixelSize,
          w |-> Ceil(w.pe.outputWidth, w.pe.pixelSize),
          h |-> Ceil(w.pe.outputHeight, w.pe.pixelSize)]

dispose(w) == [w EXCEPT !.pe.originalImage = NoImage]

----------------------------------------------------------------------------
(* AnimationEngine *)

setEffect(w, effect) == [w EXCEPT !.ae.currentEffect = effect]

\* an intensity that is stored as it is given
setIntensityUnclamped(w, intensity) == [w EXCEPT !.ae.intensity = intensity]

setIntensity(w, intensity) ==
    [w EXCEPT !.ae.intensity = Max2(MinIntensity, Min2(MaxIntensity, intensity))]

setSpeed(w, speed) ==
    [w EXCEPT !.ae.speed = Max2(MinSpeed, Min2(MaxSpeed, speed))]

prepare(w) ==
    IF ~w.ae.inited THEN w
    ELSE LET w1 == getPixelatedData(w,
                       IF w.canvas.w = 0 THEN DefaultBox ELSE w.canvas.w,
                       IF w.canvas.h = 0 THEN DefaultBox ELSE w.canvas.h)
             w2 == [w1 EXCEPT !.ae.baseImageData = (w.pe.originalImage # NoImage),
                              !.canvas = [w |-> w1.pe.outputWidth,
                                          h |-> w1.pe.outputHeight]]
         IN  [w2 EXCEPT !.ae.pixelGrid = getPixelGrid(w2)]

\* a render() that counts the frame
renderCounting(w, by, id) ==
    IF ~w.ae.baseImageData \/ w.ae.pixelGrid = NoGrid
    THEN Emit(w, "render", by, id, 0)
    ELSE Emit([w EXCEPT !.ae.frameCount = @ + 1], "render", by, id, 1)

\* by, id: who called (the live loop, or the capture loop of export id)
render(w, by, id) ==
    IF ~w.ae.baseImageData \/ w.ae.pixelGrid = NoGrid
    THEN Emit(w, "render", by, id, 0)
    ELSE Emit(w, "render", by, id, 1)

AnimHandles(q) == {q[n].h : n \in {m \in 1..Len(q) : q[m].kind = "animate"}}

FreshHandle(w) ==
    CHOOSE h \in 1..(Len(w.raf) + Len(w.cur) + 2) :
        h \notin AnimHandles(w.raf) \cup AnimHandles(w.cur) \cup {w.ae.animationId}

animate(w) ==
    IF ~w.ae.isRunning THEN w
    ELSE LET w1 == render(w, "live", 0)
             w2 == Emit([w1 EXCEPT !.ae.time = @ + w1.ae.speed],
                        "advance", "live", 0, w1.ae.speed)
             h  == FreshHandle(w2)
         IN  [w2 EXCEPT !.ae.frameCount = @ + 1,
                        !.ae.animationId = h,
                        !.raf = Append(@, [kind |-> "animate", h |-> h])]

\* a start that leaves the clock where it was
startKeepingClock(w) ==
    IF w.ae.isRunning THEN w
    ELSE LET w1 == prepare(w)
         IN  Emit(animate([w1 EXCEPT !.ae.isRunning = TRUE,
                                     !.ae.frameCount = 0]),
                  "started", "engine", 0, 0)

\* the "started" event: start() has started a stopped engine and returns
start(w) ==
    IF w.ae.isRunning THEN w
    ELSE LET w1 == prepare(w)
         IN  Emit(animate([w1 EXCEPT !.ae.isRunning = TRUE,
                                     !.ae.time = 0,
                                     !.ae.frameCount = 0]),
                  "started", "engine", 0, 0)

Without(q, h) == SelectSeq(q, LAMBDA c : ~(c.kind = "animate" /\ c.h = h))

\* a stop that leaves the pending frame scheduled
stopNotCancelling(w) ==
    Emit([w EXCEPT !.ae.isRunning = FALSE, !.ae.animationId = 0],
         "stopped", "engine", 0, 0)

\* the "stopped" event: stop() returns
stop(w) ==
    Emit(IF w.ae.animationId # 0
         THEN [w EXCEPT !.ae.isRunning = FALSE,
                        !.raf = Without(@, w.ae.animationId),
                        !.cur = Without(@, w.ae.animationId),
                        !.ae.animationId = 0]
         ELSE [w EXCEPT !.ae.isRunning = FALSE],
         "stopped", "engine", 0, 0)

reset(w) == [w EXCEPT !.ae.time = 0, !.ae.frameCount = 0]

----------------------------------------------------------------------------
(* The draw commands of render().  A command is a fillRect: the pass that
   issued it, the cell it was issued for, and what its position, size and
   colour were computed from (the real-valued results are not computed). *)

\* pixel.a of the cell (x, y) that getPixelGrid read from the images at hand:
\* the left column is transparent, the diagonal is just under the threshold
\* of the effects and the cells right of it are just at it
CellAlpha(g, x, y) ==
    IF x = 0 THEN 0 ELSE IF x = y THEN 9 ELSE IF x = y + 1 THEN 10 ELSE 255

\* the test every pass makes before it draws: this.pixelGrid[y]?.[x] is
\* there, and its alpha is not under the threshold
Skipped(w, c) ==
    \/ ~(c.x < w.ae.pixelGrid.w /\ c.y < w.ae.pixelGrid.h)
    \/ CellAlpha(w.ae.pixelGrid, c.x, c.y) < AlphaSkip

\* the cells of getGridSize(), row by row
GridCells(w) ==
    LET gw == Ceil(w.pe.outputWidth, w.pe.pixelSize)
        gh == Ceil(w.pe.outputHeight, w.pe.pixelSize)
    IN  [n \in 1..(gw * gh) |-> [x |-> (n - 1) % gw, y |-> (n - 1) \div gw]]

DrawnCells(w) == SelectSeq(GridCells(w), LAMBDA c : ~Skipped(w, c))

Fill(pass, c, from) == [pass |-> pass, x |-> c.x, y |-> c.y, from |-> from]

\* one pass over the grid
Pass(cells, pass, from) == [n \in 1..Len(cells) |-> Fill(pass, cells[n], from)]

renderStatic(w) == Pass(DrawnCells(w), "static", <<>>)

\* xOffset of row y in quarter pixels: the offset of the glitch line the row
\* is in, and the micro-jitter
GlitchOffset(w, rnd, y) ==
    LET k    == w.ae.intensity
        gh   == Ceil(w.pe.outputHeight, w.pe.pixelSize)
        top  == Min2(rnd.y, gh - 1)
        line == rnd.u < 10 * k /\ y >= top /\ y < top + rnd.height
    IN  (IF line THEN 4 * rnd.offset * k * w.pe.pixelSize ELSE 0)
        + (IF rnd.v < 2 * k THEN rnd.offset * k * w.pe.pixelSize ELSE 0)

\* per cell the red, the cyan and the main fill
renderGlitch(w, rnd) ==
    LET cells == DrawnCells(w)
        pass(n) == <<"red", "cyan", "main">>[((n - 1) % 3) + 1]
    IN  [n \in 1..(3 * Len(cells)) |->
            LET c == cells[((n - 1) \div 3) + 1]
            IN  Fill(pass(n), c,
                     <<GlitchOffset(w, rnd, c.y), 10 * w.ae.time, w.ae.intensity>>)]

\* a float whose shadow pass draws every cell of the grid
renderFloatShadowingAll(w) ==
    Pass(GridCells(w), "shadow", <<w.ae.time, w.ae.intensity>>)
        \o Pass(DrawnCells(w), "float", <<w.ae.time, w.ae.intensity>>)

\* the shadow pass, then the main pass
renderFloat(w) ==
    Pass(DrawnCells(w), "shadow", <<w.ae.time, w.ae.intensity>>)
        \o Pass(DrawnCells(w), "float", <<w.ae.time, w.ae.intensity>>)

seededRandom(seed) == SeededTable[(seed \div 1000) + 1][(seed % 1000) + 1]

\* sin(sparklePhase)^2 of candidate i at clock t: 0 if it is at most 0.3,
\* 1 if it is over 0.3, 2 if it is over 0.6 (angles in millionths of a
\* radian; time * 5 is 0.016 per unit of the clock)
Brightness(t, i) ==
    LET phase == (t * 16000 + i * 500000) % 3141593
    IN  IF phase > 886077 /\ phase < 2255516 THEN 2
        ELSE IF phase > 579640 /\ phase < 2561953 THEN 1
        ELSE 0

\* the sparkle candidates from candidate i on
RECURSIVE Sparkles(_, _)
Sparkles(w, i) ==
    IF i >= w.ae.intensity * 5 THEN <<>>
    ELSE LET seed == i * 1000 + ((w.ae.time * 96) \div 10000)
             gw   == Ceil(w.pe.outputWidth, w.pe.pixelSize)
             gh   == Ceil(w.pe.outputHeight, w.pe.pixelSize)
             c    == [x |-> (seededRandom(seed) * gw) \div 1000000,
                      y |-> (seededRandom(seed + 1) * gh) \div 1000000]
             b    == Brightness(w.ae.time, i)
             from == <<w.ae.time, i>>
         IN  (IF Skipped(w, c) \/ b = 0 THEN <<>>
              ELSE IF b = 1 THEN <<Fill("highlight", c, from)>>
              ELSE <<Fill("highlight", c, from), Fill("halo", c, from)>>)
             \o Sparkles(w, i + 1)

\* the base pass, then the candidates
renderSparkle(w) == Pass(DrawnCells(w), "base", <<>>) \o Sparkles(w, 0)

renderWave(w) == Pass(DrawnCells(w), "wave", <<w.ae.time, w.ae.intensity>>)

renderRainbow(w) == Pass(DrawnCells(w), "rainbow", <<w.ae.time, w.ae.intensity>>)

\* a render() that draws the glitch effect whatever the current effect is
DrawCommandsAlwaysGlitch(w, rnd) ==
    IF ~w.ae.baseImageData \/ w.ae.pixelGrid = NoGrid THEN <<>>
    ELSE renderGlitch(w, rnd)

\* the fills of the effects in one render() call (after the fill that clears the
\* canvas), rnd being what Math.random() returns during the call
DrawCommands(w, rnd) ==
    IF ~w.ae.baseImageData \/ w.ae.pixelGrid = NoGrid THEN <<>>
    ELSE CASE w.ae.currentEffect = "glitch"  -> renderGlitch(w, rnd)
           [] w.ae.currentEffect = "float"   -> renderFloat(w)
           [] w.ae.currentEffect = "sparkle" -> renderSparkle(w)
           [] w.ae.currentEffect = "wave"    -> renderWave(w)
           [] w.ae.currentEffect = "rainbow" -> renderRainbow(w)
           [] OTHER -> renderStatic(w)

\* render() called from outside the loops; its event carries what it drew,
\* and the effect and the intensity it drew with
renderCall(w, rnd) ==
    LET w1 == render(w, "api", 0)
    IN  [w1 EXCEPT !.ev[Len(w1.ev)] =
            @ @@ [draws |-> DrawCommands(w, rnd), effect |-> w.ae.currentEffect,
                  intensity |-> w.ae.intensity]]

----------------------------------------------------------------------------
(* GifExporter *)

Made(g) == {e \in ExportIds : g[e].made}

\* x || d of JavaScript, for numbers
OrDefault(x, d) == IF x = 0 THEN d ELSE x

\* the result (true/false) is left in ret
init(w, width, height, options) ==
    IF ~w.lib
    THEN [Emit(w, "error", "export", 0, 0) EXCEPT !.ret = FALSE]
    ELSE LET g == CHOOSE e \in ExportIds \ Made(w.gifs) :
                       \A f \in ExportIds \ Made(w.gifs) : e <= f
         IN  [w EXCEPT !.ge.totalFrames = OrDefault(options.frames, DefaultFrames),
                       !.ge.frameDelay = OrDefault(options.delay, DefaultDelay),
                       !.ge.gif = g,
                       !.gifs[g] = [NoGif EXCEPT !.made = TRUE, !.w = width, !.h = height],
                       !.ge.framesCaptured = 0,
                       !.ret = TRUE]

\* this.onProgress(percent, ...) called by the capture loop or the encoder
\* handler (by) while the exporter holds / for the encoder instance g
onProgress(w, by, g, percent) ==
    LET w1 == Emit(w, "progress", by, g, percent)
    IN  IF g \in ExportIds THEN [w1 EXCEPT !.gifs[g].reported = percent] ELSE w1

\* id: the capture loop that calls
addFrame(w, id) ==
    IF w.ge.gif = 0 \/ ~w.ge.isExporting THEN w
    ELSE LET w1 == Emit([w EXCEPT !.gifs[w.ge.gif].frames = @ + 1,
                                  !.ge.framesCaptured = @ + 1],
                        "addFrame", "capture", id, w.ge.gif)
         IN  onProgress(w1, "capture", w1.ge.gif,
                        FloorMul(50, w1.ge.framesCaptured, w1.ge.totalFrames))

\* the end of a capture loop: the closure is not called again
LoopEnds(w, id) ==
    [Emit(w, "loopEnd", "capture", id, 0) EXCEPT !.loops[id] = NoLoop]

\* a capture loop that does not look at isExporting
CaptureDoneIgnoringCancel(w) ==
    w.ge.framesCaptured >= w.ge.totalFrames

\* the test at the head of captureLoop
CaptureDone(w) ==
    ~w.ge.isExporting \/ w.ge.framesCaptured >= w.ge.totalFrames

captureLoop(w, id) ==
    IF CaptureDone(w)
    THEN LET w1 == IF w.ge.isExporting
                   THEN Emit([onProgress(w, "capture", w.ge.gif, 50)
                                 EXCEPT !.gifs[w.ge.gif].renders = @ + 1],
                             "finalize", "capture", id, w.ge.gif)
                   ELSE w
             w2 == IF w.loops[id].wasRunning THEN start(w1) ELSE w1
         IN  LoopEnds(w2, id)
    ELSE LET w1 == Emit([w EXCEPT !.ae.time = @ + w.ae.speed],
                        "advance", "capture", id, w.ae.speed)
             w2 == render(w1, "capture", id)
             w3 == [w2 EXCEPT !.loops[id].frameCounter = @ + 1]
             w4 == IF w3.loops[id].frameCounter % w3.loops[id].interval = 0
                   THEN addFrame(w3, id) ELSE w3
         IN  [w4 EXCEPT !.raf = Append(@, [kind |-> "capture", h |-> id])]

\* a startExport that stops the engine before it knows whether init succeeds
startExportStoppingFirst(w, options) ==
    LET w0 == init(reset(stop(w)), w.canvas.w, w.canvas.h, options)
    IN  IF ~w0.ret THEN w0
        ELSE captureLoop([w0 EXCEPT !.ge.isExporting = TRUE,
                                    !.loops[w0.ge.gif] =
                                        [NoLoop EXCEPT !.active = TRUE,
                                            !.wasRunning = w.ae.isRunning,
                                            !.interval = OrDefault(options.captureInterval,
                                                                   DefaultInterval),
                                            !.frames = w0.ge.totalFrames,
                                            !.preTime = w.ae.time]],
                         w0.ge.gif)

startExport(w, options) ==
    LET w0 == init(w, w.canvas.w, w.canvas.h, options)
    IN  IF ~w0.ret THEN w0
        ELSE LET id == w0.ge.gif
                 w1 == [w0 EXCEPT !.ge.isExporting = TRUE,
                                  !.ge.framesCaptured = 0]
                 w2 == reset(stop(w1))
                 w3 == [w2 EXCEPT !.loops[id] =
                            [NoLoop EXCEPT
                                !.active = TRUE,
                                !.wasRunning = w1.ae.isRunning,
                                !.interval = OrDefault(options.captureInterval,
                                                       DefaultInterval),
                                !.frames = w1.ge.totalFrames,
                                !.preTime = w1.ae.time]]
             IN  captureLoop(w3, id)

Active(l) == {e \in ExportIds : l[e].active}

cancel(w) ==
    LET w1 == [w EXCEPT !.ge.isExporting = FALSE,
                        !.loops = [e \in ExportIds |->
                                      IF e \in Active(w.loops)
                                      THEN [w.loops[e] EXCEPT !.cancelled = TRUE]
                                      ELSE w.loops[e]]]
    IN  IF w1.ge.gif # 0
        THEN [w1 EXCEPT !.gifs[w1.ge.gif].aborted = TRUE, !.ge.gif = 0]
        ELSE w1

\* the 'progress' handler bound in init, for progress q / ProgressSteps
onEncoderProgress(w, g, q) ==
    onProgress([w EXCEPT !.gifs[g].p = q], "encoder", g,
               50 + FloorMul(50, q, ProgressSteps))

\* the 'finished' handler bound in init
onFinished(w, g) ==
    Emit([w EXCEPT !.ge.isExporting = FALSE, !.gifs[g].finished = TRUE],
         "complete", "encoder", g, g)

----------------------------------------------------------------------------
(* One animation frame of the host: the callbacks pending at its beginning *)
(* run in registration order; what they register waits for the next frame. *)

RunCallback(w, c) ==
    IF c.kind = "animate" THEN animate(w) ELSE captureLoop(w, c.h)

RECURSIVE RunFrame(_)
RunFrame(w) ==
    IF w.cur = <<>> THEN w
    ELSE RunFrame(RunCallback([w EXCEPT !.cur = Tail(@)], Head(w.cur)))

----------------------------------------------------------------------------
(* The state after construction (initEngines) *)

InitEngines ==
    /\ pe = [originalImage |-> NoImage, pixelSize |-> DefaultPixelSize,
             outputWidth |-> 0, outputHeight |-> 0]
    /\ ae = [inited |-> FALSE, isRunning |-> FALSE, animationId |-> 0,
             speed |-> DefaultSpeed, time |-> 0, frameCount |-> 0,
             pixelGrid |-> NoGrid, baseImageData |-> FALSE,
             currentEffect |-> DefaultEffect, intensity |-> DefaultIntensity]
    /\ ge = [gif |-> 0, isExporting |-> FALSE, framesCaptured |-> 0,
             totalFrames |-> DefaultFrames, frameDelay |-> DefaultDelay]
    /\ canvas \in CanvasInits
    /\ app = [isImageLoaded |-> FALSE]
    /\ sliders = [pixelSize |-> DefaultPixelSize, speed |-> DefaultSpeed,
                  intensity |-> DefaultIntensity, effect |-> DefaultEffect]
    /\ loads = {}
    /\ promises = [s \in Slots |-> NoPromise]
    /\ gifLib \in BOOLEAN
    /\ exportOptions \in [frames : FrameInputs, captureInterval : IntervalInputs]
    /\ gifs = [e \in ExportIds |-> NoGif]
    /\ loops = [e \in ExportIds |-> NoLoop]
    /\ raf = <<>>
    /\ ev = <<>>

\* the user has one image file
Init == InitEngines /\ files = {1}

\* the user has several image files
InitApp == InitEngines /\ files = Images

\* playback only: one image file, the encoder library present, no export
InitSizes ==
    /\ Init
    /\ gifLib
    /\ exportOptions = [frames |-> 1, captureInterval |-> 1]

\* playback of an image that is larger than the canvas of the page, which
\* has the size a canvas element has by default
InitHistory ==
    /\ InitEngines
    /\ files = {3}
    /\ canvas = [w |-> 300, h |-> 150]
    /\ gifLib
    /\ exportOptions = [frames |-> 1, captureInterval |-> 1]

\* playback of an image of an ordinary shape and of a strip one pixel high
InitStrip ==
    /\ InitEngines
    /\ files = {3, 6}
    /\ gifLib
    /\ exportOptions = [frames |-> 1, captureInterval |-> 1]

\* the effects: a small image with transparent cells, a page canvas of the
\* default size, no export
InitRender ==
    /\ InitEngines
    /\ files = {5}
    /\ canvas = [w |-> 300, h |-> 150]
    /\ gifLib
    /\ exportOptions = [frames |-> 1, captureInterval |-> 1]

\* export of an image whose output size depends on the block size
InitCanvas ==
    /\ InitEngines
    /\ files = {5}
    /\ canvas = [w |-> 300, h |-> 150]
    /\ gifLib

\* the pixelation engine on its own, with the images it may be given (what
\* the exporter and the canvas are does not matter to it)
InitEngine ==
    /\ InitEngines
    /\ files = EngineImages
    /\ gifLib
    /\ canvas.w = 0
    /\ exportOptions = [frames |-> 1, captureInterval |-> 1]

\* an encoder instance is in use while the exporter holds it, while its
\* export's capture loop is scheduled, or while it is encoding
Encoding(g) == g.made /\ g.renders > 0 /\ ~g.aborted /\ ~g.finished /\ ~g.failed

InUse(w, e) == w.ge.gif = e \/ w.loops[e].active \/ Encoding(w.gifs[e])

\* the world after a handler becomes the state; instances out of use are gone
Commit(w) ==
    \E x \in {w} :
        /\ pe' = x.pe
        /\ ae' = x.ae
        /\ ge' = x.ge
        /\ canvas' = x.canvas
        /\ gifs' = [e \in ExportIds |-> IF InUse(x, e) THEN x.gifs[e] ELSE NoGif]
        /\ loops' = x.loops
        /\ raf' = x.raf
        /\ ev' = x.ev

----------------------------------------------------------------------------
(* Application handlers *)

\* handleFileSelect / handleDrop -> loadImage(file), up to the await.  The
\* upload area is hidden while an image is loaded (lines 493-494, 582-583).
HandleFileSelect ==
    \E i \in files :
        /\ ~app.isImageLoaded
        /\ i \notin loads
        /\ loads' = loads \cup {i}
        /\ ev' = <<>>
        /\ UNCHANGED <<pe, ae, ge, canvas, app, sliders, files, gifLib, exportOptions,
                       promises, gifs, loops, raf>>

\* img.onload, and the rest of loadImage after the await
LoadAfterAwait(w, i) ==
    LET w1 == [w EXCEPT !.pe.originalImage = i]
        w2 == setPixelSize(w1, sliders.pixelSize)
        w3 == [w2 EXCEPT !.ae.inited = TRUE]
        w4 == setEffect(w3, sliders.effect)
        w5 == setIntensity(w4, sliders.intensity)
        w6 == setSpeed(w5, sliders.speed)
    IN  start(w6)

LoadComplete ==
    \E i \in loads :
        /\ Commit(LoadAfterAwait(World, i))
        /\ loads' = loads \ {i}
        /\ app' = [app EXCEPT !.isImageLoaded = TRUE]
        /\ UNCHANGED <<sliders, files, gifLib, exportOptions, promises>>

\* a decode that fails after it has stored the image it could not decode
loadImageRejectedHalfway(w, i) ==
    Emit([w EXCEPT !.pe.originalImage = i], "loadError", "app", 0, i)

\* img.onerror rejects the promise, and the catch block of the application's
\* loadImage shows the failure: neither touches an engine
loadImageRejected(w, i) == Emit(w, "loadError", "app", 0, i)

LoadFail ==
    \E i \in loads :
        /\ Commit(loadImageRejected(World, i))
        /\ loads' = loads \ {i}
        /\ UNCHANGED <<app, sliders, files, gifLib, exportOptions, promises>>

\* a block-size change that is not followed by prepare()
PixelSizeChangedNoPrepare(w, size) == setPixelSize(w, size)

\* handlePixelSizeChange with an image loaded: setPixelSize, then prepare
PixelSizeChanged(w, size) == prepare(setPixelSize(w, size))

HandlePixelSizeChange ==
    \E size \in PixelSizeInputs :
        /\ sliders' = [sliders EXCEPT !.pixelSize = size]
        /\ Commit(IF app.isImageLoaded THEN PixelSizeChanged(World, size)
                  ELSE World)
        /\ UNCHANGED <<app, files, loads, gifLib, exportOptions, promises>>

\* handlePixelSizeChange, the slider moved to any position (and past its ends)
HandleAnyPixelSize ==
    \E size \in SizeInputs :
        /\ sliders' = [sliders EXCEPT !.pixelSize = size]
        /\ Commit(IF app.isImageLoaded THEN PixelSizeChanged(World, size)
                  ELSE World)
        /\ UNCHANGED <<app, files, loads, gifLib, exportOptions, promises>>

HandleSpeedChange ==
    \E speed \in SpeedInputs :
        /\ sliders' = [sliders EXCEPT !.speed = speed]
        /\ Commit(IF app.isImageLoaded THEN setSpeed(World, speed) ELSE World)
        /\ UNCHANGED <<app, files, loads, gifLib, exportOptions, promises>>

HandleReset ==
    /\ app.isImageLoaded
    /\ Commit(dispose(stop(World)))
    /\ sliders' = [pixelSize |-> DefaultPixelSize, speed |-> DefaultSpeed,
                   intensity |-> DefaultIntensity, effect |-> DefaultEffect]
    /\ app' = [app EXCEPT !.isImageLoaded = FALSE]
    /\ UNCHANGED <<files, loads, gifLib, exportOptions, promises>>

\* handleExport, with the frames and captureInterval of this run
HandleExport ==
    /\ app.isImageLoaded
    /\ gifLib => Made(gifs) # ExportIds
    /\ Commit(startExport(Emit(World, "progress", "app", 0, 0),
                  [frames |-> exportOptions.frames, delay |-> 100 \div ae.speed,
                   quality |-> 10, captureInterval |-> exportOptions.captureInterval]))
    /\ UNCHANGED <<app, sliders, files, loads, gifLib, exportOptions, promises>>

\* GifExporter.cancel(), called by the exporter's user
Cancel ==
    /\ ge.isExporting \/ ge.gif # 0
    /\ Commit(cancel(World))
    /\ UNCHANGED <<app, sliders, files, loads, gifLib, exportOptions, promises>>

\* the encoder reports 'progress' for an instance that was told to render:
\* the share of the frames it has encoded, which grows
EncoderProgress ==
    \E g \in Made(gifs) :
        \E q \in (gifs[g].p + 1)..ProgressSteps :
            /\ Encoding(gifs[g])
            /\ Commit(onEncoderProgress(World, g, q))
            /\ UNCHANGED <<app, sliders, files, loads, gifLib, exportOptions, promises>>

\* the encoder reports 'finished' for an instance that was told to render
EncoderFinished ==
    \E g \in Made(gifs) :
        /\ Encoding(gifs[g])
        /\ Commit(onFinished(World, g))
        /\ UNCHANGED <<app, sliders, files, loads, gifLib, exportOptions, promises>>

\* the encoder fails (its worker script does not load, a worker throws) for
\* an instance that was told to render: init binds 'progress' and 'finished'
\* only, so no code of the exporter runs
EncoderFails ==
    \E g \in Made(gifs) :
        /\ Encoding(gifs[g])
        /\ Commit(Emit([World EXCEPT !.gifs[g].failed = TRUE],
                       "fail", "encoder", g, g))
        /\ UNCHANGED <<app, sliders, files, loads, gifLib, exportOptions, promises>>

\* The pixelation engine called on its own: img.onload of loadImage,
\* setPixelSize, getPixelatedData and dispose.
EngineLoad ==
    \E i \in files :
        /\ Commit([World EXCEPT !.pe.originalImage = i])
        /\ UNCHANGED <<app, sliders, files, loads, gifLib, exportOptions, promises>>

\* loadImage(source) up to its return: img.src is set for the kinds of source
\* the if-chain names, and for no other
EngineLoadImage ==
    \E s \in Slots, kind \in SourceKinds, i \in files :
        /\ promises[s] = NoPromise
        /\ \A t \in Slots : t < s => promises[t] # NoPromise
        /\ promises' = [promises EXCEPT ![s] =
                            [kind |-> kind, img |-> i, srcSet |-> kind # "other"]]
        /\ Commit(Emit(World, "loadImage", "engine", 0, i))
        /\ UNCHANGED <<app, sliders, files, loads, gifLib, exportOptions>>

\* img.onload: the image is stored and the promise is resolved
ImageLoads ==
    \E s \in Slots :
        /\ promises[s].srcSet
        /\ promises' = [promises EXCEPT ![s] = NoPromise]
        /\ Commit(Emit([World EXCEPT !.pe.originalImage = promises[s].img],
                       "resolved", "engine", 0, promises[s].img))
        /\ UNCHANGED <<app, sliders, files, loads, gifLib, exportOptions>>

\* img.onerror: the promise is rejected
ImageErrors ==
    \E s \in Slots :
        /\ promises[s].srcSet
        /\ promises' = [promises EXCEPT ![s] = NoPromise]
        /\ Commit(Emit(World, "rejected", "engine", 0, promises[s].img))
        /\ UNCHANGED <<app, sliders, files, loads, gifLib, exportOptions>>

EngineSetPixelSize ==
    \E size \in SizeInputs :
        /\ Commit(setPixelSize(World, size))
        /\ UNCHANGED <<app, sliders, files, loads, gifLib, exportOptions, promises>>

EngineGetPixelatedData ==
    \E maxW \in BoxInputs, maxH \in BoxInputs :
        /\ Commit(getPixelatedData(World, maxW, maxH))
        /\ UNCHANGED <<app, sliders, files, loads, gifLib, exportOptions, promises>>

EngineDispose ==
    /\ Commit(dispose(World))
    /\ UNCHANGED <<app, sliders, files, loads, gifLib, exportOptions, promises>>

\* The effect controls with any value, and render() called twice in a row.
HandleEffectChange ==
    \E effect \in Effects :
        /\ sliders' = [sliders EXCEPT !.effect = effect]
        /\ Commit(IF app.isImageLoaded THEN setEffect(World, effect) ELSE World)
        /\ UNCHANGED <<app, files, loads, gifLib, exportOptions, promises>>

HandleIntensityChange ==
    \E intensity \in ControlInputs :
        /\ sliders' = [sliders EXCEPT !.intensity = intensity]
        /\ Commit(IF app.isImageLoaded THEN setIntensity(World, intensity) ELSE World)
        /\ UNCHANGED <<app, files, loads, gifLib, exportOptions, promises>>

HandleAnySpeed ==
    \E speed \in ControlInputs :
        /\ sliders' = [sliders EXCEPT !.speed = speed]
        /\ Commit(IF app.isImageLoaded THEN setSpeed(World, speed) ELSE World)
        /\ UNCHANGED <<app, files, loads, gifLib, exportOptions, promises>>

HandleBlockSize ==
    \E size \in BlockInputs :
        /\ sliders' = [sliders EXCEPT !.pixelSize = size]
        /\ Commit(IF app.isImageLoaded THEN PixelSizeChanged(World, size)
                  ELSE World)
        /\ UNCHANGED <<app, files, loads, gifLib, exportOptions, promises>>

RenderTwice ==
    \E rnd1 \in RandomOutcomes, rnd2 \in RandomOutcomes :
        /\ Commit(renderCall(renderCall(World, rnd1), rnd2))
        /\ UNCHANGED <<app, sliders, files, loads, gifLib, exportOptions, promises>>

\* a callback is pending (and the model's bounds let the frame run)
TickEnabled ==
    /\ raf # <<>>
    /\ AnimHandles(raf) # {} => ae.time < MaxTime
    /\ \A e \in Active(loops) : loops[e].frameCounter < MaxRenders

\* one animation frame
Tick ==
    /\ TickEnabled
    /\ Commit(RunFrame(Emit([World EXCEPT !.cur = raf, !.raf = <<>>],
                            "tick", "host", 0, 0)))
    /\ UNCHANGED <<app, sliders, files, loads, gifLib, exportOptions, promises>>

----------------------------------------------------------------------------
(* Specifications *)

\* The export protocol: loading, reset, export, cancel, the encoder and the
\* animation frames, at the slider values of construction.
Next ==
    \/ HandleFileSelect
    \/ LoadComplete
    \/ LoadFail
    \/ HandleReset
    \/ HandleExport
    \/ Cancel
    \/ EncoderFinished
    \/ Tick

Spec == Init /\ [][Next]_vars

\* The application without export: loading of several files, the controls,
\* reset and the animation frames.
NextApp ==
    \/ HandleFileSelect
    \/ LoadComplete
    \/ LoadFail
    \/ HandlePixelSizeChange
    \/ HandleSpeedChange
    \/ HandleReset
    \/ Tick

SpecApp == InitApp /\ [][NextApp]_vars

\* Export while the block size is changed: the export protocol without
\* cancel(), with the pixel-size slider.
NextResize ==
    \/ HandleFileSelect
    \/ LoadComplete
    \/ LoadFail
    \/ HandlePixelSizeChange
    \/ HandleReset
    \/ HandleExport
    \/ EncoderFinished
    \/ Tick

SpecResize == Init /\ [][NextResize]_vars

\* The same, with an image whose canvas the block size resizes.
SpecCanvas == InitCanvas /\ [][NextResize]_vars

\* The export protocol with the encoder's progress reports.
NextEncoder ==
    \/ HandleFileSelect
    \/ LoadComplete
    \/ LoadFail
    \/ HandleReset
    \/ HandleExport
    \/ Cancel
    \/ EncoderProgress
    \/ EncoderFinished
    \/ Tick

SpecEncoder == Init /\ [][NextEncoder]_vars

\* Playback at every block size: loading, the pixel-size slider over its
\* whole range, reset and the animation frames.
NextSizes ==
    \/ HandleFileSelect
    \/ LoadComplete
    \/ LoadFail
    \/ HandleAnyPixelSize
    \/ HandleReset
    \/ Tick

SpecSizes == InitSizes /\ [][NextSizes]_vars

\* Histories of block-size changes on an image larger than the canvas.
NextHistory ==
    \/ HandleFileSelect
    \/ LoadComplete
    \/ LoadFail
    \/ HandlePixelSizeChange
    \/ HandleSpeedChange
    \/ HandleReset
    \/ Tick

SpecHistory == InitHistory /\ [][NextHistory]_vars

\* The same histories on images of ordinary and of extreme aspect ratio.
SpecStrip == InitStrip /\ [][NextHistory]_vars

\* The pixelation engine on its own.
NextEngine ==
    \/ EngineLoad
    \/ EngineSetPixelSize
    \/ EngineGetPixelatedData
    \/ EngineDispose

SpecEngine == InitEngine /\ [][NextEngine]_vars

\* loadImage called with any source.  The host decoder reports load or error
\* for every image whose src was set: each pending promise whose img.src is set
\* is settled (weak fairness of its onload / onerror).
NextLoad ==
    \/ EngineLoadImage
    \/ ImageLoads
    \/ ImageErrors
    \/ EngineDispose

\* onload or onerror of the image of promise s
Settles(s) ==
    /\ ImageLoads \/ ImageErrors
    /\ promises[s].srcSet
    /\ promises'[s] = NoPromise

SpecLoad ==
    /\ InitEngine
    /\ [][NextLoad]_vars
    /\ \A s \in Slots : WF_vars(Settles(s))

\* The effects: loading, the controls at any value, and render().
NextRender ==
    \/ HandleFileSelect
    \/ LoadComplete
    \/ HandleEffectChange
    \/ HandleIntensityChange
    \/ HandleAnySpeed
    \/ HandleBlockSize
    \/ RenderTwice

SpecRender == InitRender /\ [][NextRender]_vars

\* Export with an encoder that may fail.  The host runs a pending animation
\* frame, settles a pending decode, and the encoder settles (it finishes or it
\* fails); what the user does is not forced to happen.
NextLive ==
    \/ HandleFileSelect
    \/ LoadComplete
    \/ LoadFail
    \/ HandleExport
    \/ EncoderFinished
    \/ EncoderFails
    \/ Tick

\* WF_vars(Tick), with the enabling condition of Tick written out
FairTick == []<>(~TickEnabled) \/ []<><<Tick>>_vars

\* WF_vars(LoadComplete \/ LoadFail), with the enabling condition written out
FairLoads == []<>(loads = {}) \/ []<><<LoadComplete \/ LoadFail>>_vars

SpecLive ==
    /\ Init
    /\ [][NextLive]_vars
    /\ FairTick
    /\ FairLoads
    /\ WF_vars(EncoderFinished \/ EncoderFails)

----------------------------------------------------------------------------
(* Properties.  Events(op) are the events of the last handler or frame.    *)

Events(op) == {n \in 1..Len(ev) : ev[n].op = op}

CaptureEvents(op) == {n \in Events(op) : ev[n].by = "capture"}

\* C1: an export that is not cancelled hands exactly N frames to its encoder,
\* after N * captureInterval capture renders: when its capture loop ends, its
\* encoder has received N frames and the loop has rendered N * k times.
C1_ExactFrames ==
    \A n \in Events("loopEnd") :
        ~ev[n].loop.cancelled =>
            /\ ev[n].own.frames = ev[n].loop.frames
            /\ ev[n].loop.frameCounter = ev[n].loop.frames * ev[n].loop.interval

\* C2: the encoder's render() is invoked at most once on an encoder instance,
\* and only when the frames asked for have been captured.
C2_FinalizeOnce ==
    /\ \A e \in Made(gifs) : gifs[e].renders <= 1
    /\ \A n \in Events("finalize") : ge.framesCaptured >= ge.totalFrames

\* C3: when the capture loop of an export ends, isRunning is what it was when
\* startExport was called.
C3_RunningRestored ==
    \A n \in Events("loopEnd") : ev[n].running = ev[n].loop.wasRunning

\* C4: when the capture loop of a cancelled export ends, isRunning and the
\* clock are what they were before startExport.
C4_CancelRestores ==
    \A n \in Events("loopEnd") :
        ev[n].loop.cancelled =>
            /\ ev[n].running = ev[n].loop.wasRunning
            /\ ev[n].time = ev[n].loop.preTime

\* C5: the capture loop of an export that was cancelled advances the clock
\* no more and renders no more.
C5_HaltsAfterCancel ==
    \A n \in CaptureEvents("advance") \cup CaptureEvents("render") :
        ~ev[n].loop.cancelled

\* C6: a cancelled export hands no frame to an encoder, finalizes no encoder,
\* and an aborted encoder never completes.
C6_NoOutputAfterCancel ==
    /\ \A n \in CaptureEvents("addFrame") \cup CaptureEvents("finalize") :
           ~ev[n].loop.cancelled
    /\ \A e \in Made(gifs) : ~(gifs[e].aborted /\ gifs[e].finished)

\* C7: while a capture loop is scheduled, live playback is stopped and no live
\* animation callback is pending.
C7_CaptureExcludesLive ==
    Active(loops) # {} => ~ae.isRunning /\ AnimHandles(raf) = {}

\* C8: an animation frame contains at most one render() call, and at most one
\* capture loop is scheduled.
C8_OneRenderPerTick ==
    /\ Events("tick") # {} => Cardinality(Events("render")) <= 1
    /\ Cardinality(Active(loops)) <= 1

\* C9 (as stated): whenever the clock advances, isRunning is true.
C9_AdvanceOnlyRunning ==
    \A n \in Events("advance") : ev[n].running

\* C9 (amended): whenever the clock advances, isRunning is true or an export
\* is in progress (isExporting is true).
C9_AdvanceOnlyRunningOrExporting ==
    \A n \in Events("advance") : ev[n].running \/ ev[n].exporting

\* a capture loop advanced the clock while live playback was stopped
C9_Witness ==
    \E n \in CaptureEvents("advance") : ~ev[n].running /\ ev[n].exporting

\* C10: a frame is drawn from a grid that was derived from the image that is
\* loaded now.
C10_GridOfCurrentImage ==
    \A n \in Events("render") : ev[n].val = 1 => ev[n].grid.img = ev[n].img

\* C12: within one export (one encoder instance) the percentages passed to
\* onProgress lie in 0..100 and never decrease; the report that follows the
\* k-th frame handed to the encoder is floor(50 * k / N); render() is preceded
\* by a report of 50; a report of the encoder is 50 + floor(50 * p).
C12_ProgressMonotone ==
    /\ \A n \in Events("progress") :
           ev[n].by # "app" =>
               /\ ev[n].val \in 0..100
               /\ ev[n].val >= ev[n].own.reported
               /\ ev[n].by = "encoder" =>
                      ev[n].val = 50 + (50 * ev[n].own.p) \div ProgressSteps
    /\ \A n \in Events("addFrame") :
           /\ ev[n + 1].op = "progress"
           /\ ev[n + 1].val = (50 * ev[n + 1].own.frames) \div exportOptions.frames
    /\ \A n \in Events("finalize") :
           ev[n - 1].op = "progress" /\ ev[n - 1].val = 50

\* C13: an export that was started comes to an end: whenever isExporting is
\* true, eventually the completion callback has been called and isExporting is
\* false, also when the encoder fails.
C13_ExportTerminates ==
    ge.isExporting ~> (~ge.isExporting /\ Events("complete") # {})

\* C14: when the encoder library is not available, an export request calls
\* the error callback exactly once, captures no frame, renders no capture
\* frame, and leaves isRunning, the clock and isExporting as they were.
C14_UnavailableEncoder ==
    [][Events("error")' # {} =>
          /\ Cardinality(Events("error")') = 1
          /\ Events("addFrame")' = {}
          /\ Events("render")' = {}
          /\ Events("advance")' = {}
          /\ ae' = ae
          /\ ge' = ge
          /\ loops' = loops
          /\ raf' = raf]_vars

\* an export was refused while live playback was running and had advanced
C14_Witness ==
    /\ Events("error") # {}
    /\ ~gifLib
    /\ ae.isRunning
    /\ ae.time > 0

\* C15: when the encoder fails after frames were handed to it, the error
\* callback is called, the exporter no longer holds that encoder instance and
\* isExporting is false.
C15_EncoderFailureSurfaced ==
    \A n \in Events("fail") :
        /\ \E m \in Events("error") : m > n
        /\ ge.gif # ev[n].val
        /\ ~ge.isExporting

\* C16: a step in which an image load fails leaves the pixelation engine
\* (image, block size, output geometry), the animation engine, the canvas and
\* isImageLoaded as they were.
C16_FailedLoadNoPartialState ==
    [][Events("loadError")' # {} =>
          /\ pe' = pe
          /\ ae' = ae
          /\ canvas' = canvas
          /\ app' = app]_vars

\* a load failed while an image that was loaded before is shown
C16_Witness ==
    /\ Events("loadError") # {}
    /\ app.isImageLoaded
    /\ pe.originalImage # NoImage
    /\ pe.originalImage # ev[1].val

\* C17: in a step throughout which no image is loaded, the rendering path is
\* without effect: the pixelation engine, the canvas, the cached base image
\* and the cached grid stay as they were, and no render() call draws.
C17_NoImageNoEffect ==
    [][(pe.originalImage = NoImage /\ pe'.originalImage = NoImage) =>
          /\ pe' = pe
          /\ canvas' = canvas
          /\ ae'.pixelGrid = ae.pixelGrid
          /\ ae'.baseImageData = ae.baseImageData
          /\ \A n \in Events("render")' : ev'[n].val = 0]_vars

\* C19: every geometry computation stores the output size of the stated
\* formula, in exact arithmetic: scale = min(maxW/srcW, maxH/srcH, 1), scaled =
\* floor(src * scale), grid = ceil(scaled / blockSize), output = grid *
\* blockSize; in particular a 64x64 source in a larger box at block size 8
\* gives 64x64.
C19_GeometryFormula ==
    \A n \in Events("geometry") :
        LET iw == ImgW(ev[n].img)
            ih == ImgH(ev[n].img)
            fits == ev[n].maxW >= iw /\ ev[n].maxH >= ih
            byW  == ev[n].maxW * ih <= ev[n].maxH * iw
            sw == IF fits THEN iw ELSE IF byW THEN ev[n].maxW
                  ELSE (iw * ev[n].maxH) \div ih
            sh == IF fits THEN ih ELSE IF byW THEN (ih * ev[n].maxW) \div iw
                  ELSE ev[n].maxH
        IN  /\ ev[n].outW = Ceil(sw, ev[n].px) * ev[n].px
            /\ ev[n].outH = Ceil(sh, ev[n].px) * ev[n].px
            /\ (iw = 64 /\ ih = 64 /\ ev[n].px = 8 /\ fits) =>
                   ev[n].outW = 64 /\ ev[n].outH = 64

\* C20: a geometry computation stores an output width and height that are
\* multiples of the block size, which lies in 4..64; and when a frame is drawn
\* the output width and height are multiples of the block size of that
\* moment.
C20_OutputMultipleOfBlock ==
    \A n \in Events("geometry") \cup {m \in Events("render") : ev[m].val = 1} :
        /\ ev[n].px \in MinPixelSize..MaxPixelSize
        /\ ev[n].outW % ev[n].px = 0
        /\ ev[n].outH % ev[n].px = 0
        /\ ev[n].outW > 0
        /\ ev[n].outH > 0

\* a frame was drawn at a block size that does not divide the image size
C20_Witness ==
    \E n \in Events("render") :
        /\ ev[n].val = 1
        /\ ImgW(ev[n].img) % ev[n].px # 0
        /\ ev[n].outW % ev[n].px = 0

\* C18: the output size that a geometry computation stores depends on the
\* image and the block size only: whatever block sizes were in effect before,
\* it is the output size of that image loaded at that block size into the
\* page's canvas (300x150).
C18_GeometryOfImageAndSize ==
    \A n \in Events("geometry") :
        LET iw == ImgW(ev[n].img)
            ih == ImgH(ev[n].img)
        IN  /\ ev[n].outW = Ceil(ScaledW(iw, ih, 300, 150), ev[n].px) * ev[n].px
            /\ ev[n].outH = Ceil(ScaledH(iw, ih, 300, 150), ev[n].px) * ev[n].px

\* C21: when a frame is drawn, the cached grid has the columns and rows that
\* getGridSize() returns at that moment, ceil(outputWidth / blockSize) and
\* ceil(outputHeight / blockSize), and the cells cover the output exactly.
C21_GridDimensions ==
    \A n \in Events("render") :
        ev[n].val = 1 =>
            /\ ev[n].grid.w = Ceil(ev[n].outW, ev[n].px)
            /\ ev[n].grid.h = Ceil(ev[n].outH, ev[n].px)
            /\ ev[n].grid.w * ev[n].px = ev[n].outW
            /\ ev[n].grid.h * ev[n].px = ev[n].outH

\* a frame was drawn whose last column of blocks reaches past the image
C21_Witness ==
    \E n \in Events("render") :
        /\ ev[n].val = 1
        /\ ev[n].outW > ImgW(ev[n].img)
        /\ ev[n].grid.w = Ceil(ev[n].outW, ev[n].px)

\* C22 (as stated): when stop() returns and when start() returns after it
\* started the engine, the clock is 0.
C22_ClockZeroAfterStopAndStart ==
    \A n \in Events("stopped") \cup Events("started") : ev[n].time = 0

\* C22 (amended): start() resets the clock before it renders: the frame that
\* start() renders is rendered at clock 0, and when start() returns the clock
\* is one step (as many units as the speed).
C22_StartRendersAtZero ==
    \A n \in Events("started") :
        /\ n > 2
        /\ ev[n - 2].op = "render" /\ ev[n - 2].by = "live"
        /\ ev[n - 2].time = 0
        /\ ev[n - 1].op = "advance"
        /\ ev[n].time = ev[n - 1].val

\* playback was restarted by a capture loop that had advanced the clock, and
\* the restart rendered at clock 0
C22_Witness ==
    \E n \in Events("started") :
        /\ n > 2
        /\ ev[n - 2].time = 0
        /\ \E m \in CaptureEvents("loopEnd") : m > n /\ ev[m].loop.frameCounter > 0

\* the object URLs that loadImage has created and nothing has revoked yet: one
\* per decode in flight (created before the decode starts) and the one of the
\* image held, which dispose() revokes
ObjectUrls == Cardinality(loads) + (IF pe.originalImage # NoImage THEN 1 ELSE 0)

\* C23: at any time at most one object URL created by loadImage is un-revoked.
C23_OneObjectUrl == ObjectUrls <= 1

\* the render() calls from outside the loops among the events
ApiRenders == {n \in Events("render") : ev[n].by = "api"}

\* two render() calls had the same grid, geometry, effect, intensity and clock
SameInputs(m, n) ==
    /\ ev[m].grid = ev[n].grid
    /\ ev[m].px = ev[n].px /\ ev[m].outW = ev[n].outW /\ ev[m].outH = ev[n].outH
    /\ ev[m].effect = ev[n].effect
    /\ ev[m].intensity = ev[n].intensity
    /\ ev[m].time = ev[n].time

\* C24: for every effect, two renders with an identical grid, intensity and
\* time issue the identical sequence of draw commands.
C24_SameInputsSameDraws ==
    \A m \in ApiRenders, n \in ApiRenders :
        SameInputs(m, n) => ev[m].draws = ev[n].draws

\* C24 (amended): for every effect but glitch, two renders with an identical
\* grid, intensity and time issue the identical sequence of draw commands.
C24_SameDrawsUnlessGlitch ==
    \A m \in ApiRenders, n \in ApiRenders :
        SameInputs(m, n) /\ ev[m].effect # "glitch" => ev[m].draws = ev[n].draws

\* sparkle was rendered twice on the same grid at the same intensity and time,
\* and drew a highlight
C24_Witness ==
    \E m \in ApiRenders, n \in ApiRenders :
        /\ m < n /\ SameInputs(m, n)
        /\ ev[m].effect = "sparkle"
        /\ \E k \in 1..Len(ev[m].draws) : ev[m].draws[k].pass = "highlight"
        /\ ev[m].draws = ev[n].draws

\* C25: no effect issues a draw command for a cell of the grid whose alpha is
\* under the skip threshold (or for a cell the grid does not have).
C25_NoDrawUnderThreshold ==
    \A n \in ApiRenders :
        \A k \in 1..Len(ev[n].draws) :
            /\ ev[n].draws[k].x < ev[n].grid.w
            /\ ev[n].draws[k].y < ev[n].grid.h
            /\ CellAlpha(ev[n].grid, ev[n].draws[k].x, ev[n].draws[k].y) >= AlphaSkip

\* float was rendered on a grid that has cells under the threshold, cells at
\* it and opaque cells, and its shadow pass drew the cell at the threshold
C25_Witness ==
    \E n \in ApiRenders :
        /\ ev[n].effect = "float"
        /\ ev[n].grid.w > 2 /\ ev[n].grid.h > 1
        /\ \E k \in 1..Len(ev[n].draws) :
              /\ ev[n].draws[k].pass = "shadow"
              /\ CellAlpha(ev[n].grid, ev[n].draws[k].x, ev[n].draws[k].y) = AlphaSkip

\* C26: render() leaves the animation engine (the cached grid, time,
\* frameCount, intensity, speed, the current effect, isRunning) and the
\* pixelation engine as they were before the call.
C26_RenderMutatesNothing ==
    [][(ev' # <<>> /\ ev'[1].op = "render" /\ ev'[1].by = "api")
            => ae' = ae /\ pe' = pe /\ canvas' = canvas]_vars

\* render() was called with the rainbow effect and drew
C26_Witness ==
    \E n \in ApiRenders :
        ev[n].val = 1 /\ ev[n].effect = "rainbow" /\ ev[n].draws # <<>>

\* C27: the block size is in 4..64, the intensity in 1..10 and the speed in
\* 1..10, whatever integers the setters were given.
C27_ControlsInRange ==
    /\ pe.pixelSize \in MinPixelSize..MaxPixelSize
    /\ ae.intensity \in MinIntensity..MaxIntensity
    /\ ae.speed \in MinSpeed..MaxSpeed

\* the setters were given a block size under 4, an intensity over 10 and a
\* speed under 1
C27_Witness ==
    /\ app.isImageLoaded
    /\ sliders.pixelSize < MinPixelSize /\ pe.pixelSize = MinPixelSize
    /\ sliders.intensity > MaxIntensity /\ ae.intensity = MaxIntensity
    /\ sliders.speed < MinSpeed /\ ae.speed = MinSpeed

\* C28: during capture the clock starts from 0 and is advanced by one step
\* before each render: the j-th render of a capture loop is at j steps (the
\* first at one step), and the m-th captured frame is the render at
\* m * captureInterval steps.
C28_CaptureClock ==
    /\ \A n \in CaptureEvents("render") :
           ev[n].time = (ev[n].loop.frameCounter + 1) * ae.speed
    /\ \A n \in CaptureEvents("addFrame") :
           ev[n].time = ev[n + 1].own.frames * ev[n].loop.interval * ae.speed

\* C29: every frame handed to an encoder has the width and the height that
\* the encoder was created with.
C29_FrameOfEncoderSize ==
    \A n \in CaptureEvents("addFrame") :
        /\ ev[n].cw = ev[n + 1].own.w
        /\ ev[n].ch = ev[n + 1].own.h

\* C30: between handlers and frames, the animation runs only while the
\* pixelation engine holds an image and the application has one loaded.
C30_RunningOnlyWithImage ==
    ae.isRunning => pe.originalImage # NoImage /\ app.isImageLoaded

\* the animate() callbacks that are scheduled
LiveCallbacks == SelectSeq(raf, LAMBDA c : c.kind = "animate")

\* C31: between handlers and frames at most one animate() callback is
\* scheduled, and none while the animation is stopped.
C31_OneLiveCallback ==
    /\ Len(LiveCallbacks) <= 1
    /\ ~ae.isRunning => LiveCallbacks = <<>>

\* playback that startExport had stopped was started again by the end of the
\* capture loop, and one animate() callback is scheduled
C31_Witness ==
    /\ Len(LiveCallbacks) = 1
    /\ \E n \in Events("started") :
          \E m \in CaptureEvents("loopEnd") : m > n /\ ev[m].loop.wasRunning

\* C32: every geometry computation on a loaded image stores an output width
\* and an output height over 0, so the grid has at least one column and one
\* row.
C32_OutputNotEmpty ==
    \A n \in Events("geometry") :
        /\ ev[n].outW > 0 /\ ev[n].outH > 0
        /\ Ceil(ev[n].outW, ev[n].px) >= 1 /\ Ceil(ev[n].outH, ev[n].px) >= 1

\* C33: every loadImage call eventually settles: a pending promise is
\* eventually resolved or rejected, whatever the source was.
C33_LoadImageSettles ==
    \A s \in Slots : (promises[s] # NoPromise) ~> (promises[s] = NoPromise)

\* C11: a frame is drawn from a grid that was derived at the block size in
\* effect at that render: no block-size change stays without a recomputation
\* of the grid until a frame is drawn.
C11_GridOfCurrentPixelSize ==
    \A n \in Events("render") : ev[n].val = 1 => ev[n].grid.px = ev[n].px

\* a frame was drawn at a block size the slider had set
C11_Witness ==
    \E n \in Events("render") :
        /\ ev[n].val = 1
        /\ ev[n].px # DefaultPixelSize
        /\ ev[n].grid.px = ev[n].px

====
